---- MODULE Spec2Model ----
(***************************************************************************)
(* A model of claude-sneakpeek's configuration utilities:                  *)
(*   - the team-mode flag patcher (core/variant-builder/team-mode-patch),  *)
(*   - the JSON store (readJson / writeJson / sanitizeJson),               *)
(*   - the MCP preset registry (core/mcp-presets) and the config merger    *)
(*     that registers presets in .claude.json.                             *)
(* Text is modelled character by character: a string is a sequence of      *)
(* one-character strings, and the regular expressions of the source are    *)
(* sequences of atoms run by a backtracking matcher.                       *)
(***************************************************************************)
EXTENDS Integers, Sequences, FiniteSets, TLC

VARIABLES
    bundle,     \* patcher: the bundle text the next call is applied to
    orig,       \* patcher: the bundle text before any call
    prev,       \* patcher: the bundle text the last setTeamModeEnabled call received
    log,        \* patcher: one record per setTeamModeEnabled call, in call order
    detected,   \* patcher: what the last detectTeamModeState call returned
    file,       \* store: the JSON file on disk, or NoFile
    readRes,    \* store: what the last readJson call returned
    cfgLog,     \* merger: one record per ensureMcpPreset(s) call, in call order
    parseInput, \* registry: the string handed to parseMcpPresets
    pieces,     \* registry: the comma-free pieces the input was joined from
    parseRes,   \* registry: what parseMcpPresets returned
    procs       \* race: per process, its position in the read-modify-write cycle

vars == <<bundle, orig, prev, log, detected, file, readRes, cfgLog,
          parseInput, pieces, parseRes, procs>>

\* what the actions of one component leave alone
notPatch == <<file, readRes, cfgLog, parseInput, pieces, parseRes, procs>>
notStore == <<bundle, orig, prev, log, detected, cfgLog, parseInput, pieces, parseRes, procs>>
notParse == <<bundle, orig, prev, log, detected, file, readRes, cfgLog, procs>>
notConfig == <<bundle, orig, prev, log, detected, readRes, parseInput, pieces, parseRes, procs>>
notRace == <<bundle, orig, prev, log, detected, readRes, cfgLog, parseInput, pieces, parseRes>>

(***************************************************************************)
(* Characters and strings                                                  *)
(***************************************************************************)
Lower == {"a","b","c","d","e","f","g","h","i","j","k","l","m",
          "n","o","p","q","r","s","t","u","v","w","x","y","z"}
Upper == {"A","B","C","D","E","F","G","H","I","J","K","L","M",
          "N","O","P","Q","R","S","T","U","V","W","X","Y","Z"}
Digits == {"0","1","2","3","4","5","6","7","8","9"}

\* \s of a JavaScript regular expression, and the characters trim() removes
SpaceChars == {" ", "\t", "\n", "\r"}
\* \w
WordChars == Lower \cup Upper \cup Digits \cup {"_"}
\* [A-Za-z_$]
IdentStart == Lower \cup Upper \cup {"_", "$"}
\* [\w$]
IdentPart == WordChars \cup {"$"}

DigitVal(c) ==
    CASE c = "0" -> 0 [] c = "1" -> 1 [] c = "2" -> 2 [] c = "3" -> 3
      [] c = "4" -> 4 [] c = "5" -> 5 [] c = "6" -> 6 [] c = "7" -> 7
      [] c = "8" -> 8 [] c = "9" -> 9

RECURSIVE Concat(_)
Concat(ss) == IF ss = <<>> THEN <<>> ELSE Head(ss) \o Concat(Tail(ss))

Min(S) == CHOOSE i \in S : \A j \in S : i <= j

(***************************************************************************)
(* Regular expressions: a sequence of atoms.                               *)
(*   lit   one literal character                                           *)
(*   one   one character of a class                                        *)
(*   rep   at least `min` characters of a class, greedy                    *)
(*   alt   one of several literal alternatives, tried in order             *)
(*   open / close   the bounds of capture group 1                          *)
(*   eol   the assertion $ (end of input; no m flag is ever used)          *)
(***************************************************************************)
Lit(c)       == [t |-> "lit",   c |-> c,  cls |-> {},  alts |-> <<>>, min |-> 0]
One(cls)     == [t |-> "one",   c |-> "", cls |-> cls, alts |-> <<>>, min |-> 0]
Rep(cls, n)  == [t |-> "rep",   c |-> "", cls |-> cls, alts |-> <<>>, min |-> n]
Alt(alts)    == [t |-> "alt",   c |-> "", cls |-> {},  alts |-> alts, min |-> 0]
Open         == [t |-> "open",  c |-> "", cls |-> {},  alts |-> <<>>, min |-> 0]
Close        == [t |-> "close", c |-> "", cls |-> {},  alts |-> <<>>, min |-> 0]
Eol          == [t |-> "eol",   c |-> "", cls |-> {},  alts |-> <<>>, min |-> 0]

Lits(str) == [i \in 1..Len(str) |-> Lit(str[i])]

NoMatch == [ok |-> FALSE, index |-> 0, end |-> 0, cap |-> <<>>]

\* whether str occurs in s at position i
StartsWithAt(s, i, str) ==
    /\ i + Len(str) - 1 <= Len(s)
    /\ \A k \in 1..Len(str) : s[i + k - 1] = str[k]

\* the length of the longest run of characters of cls in s from position i
RECURSIVE RunLength(_, _, _)
RunLength(s, i, cls) ==
    IF i > Len(s) \/ s[i] \notin cls THEN 0 ELSE 1 + RunLength(s, i + 1, cls)

\* The backtracking matcher: atoms k.. of re against s from position i, with
\* capture group 1 opened at `from` and holding `cap`.  `end` is the position
\* after the match.
RECURSIVE MatchFrom(_, _, _, _, _, _)
RECURSIVE MatchRep(_, _, _, _, _, _, _)
RECURSIVE MatchAlt(_, _, _, _, _, _, _)
MatchFrom(re, k, s, i, from, cap) ==
    IF k > Len(re) THEN [ok |-> TRUE, index |-> 0, end |-> i, cap |-> cap]
    ELSE LET a == re[k] IN
      CASE a.t = "lit" ->
             IF i <= Len(s) /\ s[i] = a.c
             THEN MatchFrom(re, k + 1, s, i + 1, from, cap) ELSE NoMatch
        [] a.t = "one" ->
             IF i <= Len(s) /\ s[i] \in a.cls
             THEN MatchFrom(re, k + 1, s, i + 1, from, cap) ELSE NoMatch
        [] a.t = "rep" -> MatchRep(re, k, s, i, from, cap, RunLength(s, i, a.cls))
        [] a.t = "alt" -> MatchAlt(re, k, s, i, from, cap, 1)
        [] a.t = "open" -> MatchFrom(re, k + 1, s, i, i, cap)
        [] a.t = "close" -> MatchFrom(re, k + 1, s, i, from, SubSeq(s, from, i - 1))
        [] a.t = "eol" ->
             IF i = Len(s) + 1
             THEN MatchFrom(re, k + 1, s, i, from, cap) ELSE NoMatch

\* a greedy repetition: n characters first, then fewer
MatchRep(re, k, s, i, from, cap, n) ==
    IF n < re[k].min THEN NoMatch
    ELSE LET m == MatchFrom(re, k + 1, s, i + n, from, cap)
         IN  IF m.ok THEN m ELSE MatchRep(re, k, s, i, from, cap, n - 1)

\* an alternation: the first alternative after which the rest matches
MatchAlt(re, k, s, i, from, cap, j) ==
    IF j > Len(re[k].alts) THEN NoMatch
    ELSE LET alt == re[k].alts[j]
             m == IF StartsWithAt(s, i, alt)
                  THEN MatchFrom(re, k + 1, s, i + Len(alt), from, cap)
                  ELSE NoMatch
         IN  IF m.ok THEN m ELSE MatchAlt(re, k, s, i, from, cap, j + 1)

\* the characters a match of re can start with (re starts with lit, one or alt)
FirstChars(re) ==
    LET a == re[1] IN
      CASE a.t = "lit" -> {a.c}
        [] a.t = "one" -> a.cls
        [] a.t = "alt" -> {a.alts[j][1] : j \in 1..Len(a.alts)}

\* String.prototype.match / search with a non-global expression: the leftmost
\* match, as [ok, index, end, cap], index and end 1-based, end exclusive.
RegExpExec(re, s) ==
    LET first == FirstChars(re)
        at == {i \in 1..Len(s) : s[i] \in first /\ MatchFrom(re, 1, s, i, i, <<>>).ok}
    IN  IF at = {} THEN NoMatch
        ELSE LET i == Min(at) IN [MatchFrom(re, 1, s, i, i, <<>>) EXCEPT !.index = i]

(***************************************************************************)
(* new RegExp(source): the part of the pattern grammar that the sources    *)
(* built by this program use.  A backslash before s, w or d is a class     *)
(* escape, before any other character it makes that character literal; an  *)
(* unescaped $ is the end-of-input assertion; + repeats the atom before    *)
(* it; ( a | b ) is a capturing group of literal alternatives.             *)
(***************************************************************************)
RECURSIVE SplitOn(_, _)
SplitOn(str, sep) ==
    LET at == {i \in 1..Len(str) : str[i] = sep}
    IN  IF at = {} THEN <<str>>
        ELSE <<SubSeq(str, 1, Min(at) - 1)>>
               \o SplitOn(SubSeq(str, Min(at) + 1, Len(str)), sep)

EscapeAtom(c) ==
    CASE c = "s" -> One(SpaceChars)
      [] c = "w" -> One(WordChars)
      [] c = "d" -> One(Digits)
      [] OTHER -> Lit(c)

Repeated(a) == IF a.t = "lit" THEN Rep({a.c}, 1) ELSE Rep(a.cls, 1)

RECURSIVE Compile(_, _, _)
Compile(src, i, acc) ==
    IF i > Len(src) THEN acc
    ELSE LET c == src[i] IN
      CASE c = "\\" -> Compile(src, i + 2, Append(acc, EscapeAtom(src[i + 1])))
        [] c = "(" ->
             LET j == Min({k \in i + 1..Len(src) : src[k] = ")"})
             IN  Compile(src, j + 1,
                         acc \o <<Open, Alt(SplitOn(SubSeq(src, i + 1, j - 1), "|")), Close>>)
        [] c = "+" ->
             Compile(src, i + 1,
                     Append(SubSeq(acc, 1, Len(acc) - 1), Repeated(acc[Len(acc)])))
        [] c = "$" -> Compile(src, i + 1, Append(acc, Eol))
        [] OTHER -> Compile(src, i + 1, Append(acc, Lit(c)))

NewRegExp(src) == Compile(src, 1, <<>>)

(***************************************************************************)
(* String.prototype.replace(regexp, template) with a non-global regexp:    *)
(* the leftmost match is replaced by the expansion of the template, in     *)
(* which $$ is a dollar sign, $& the match, $` and $' the text before and  *)
(* after it, and $n / $nn capture group n (GetSubstitution of ECMA-262).   *)
(***************************************************************************)
RECURSIVE GetSubstitution(_, _, _, _, _)
GetSubstitution(tpl, i, s, m, ncaps) ==
    IF i > Len(tpl) THEN <<>>
    ELSE IF tpl[i] # "$" \/ i = Len(tpl)
    THEN <<tpl[i]>> \o GetSubstitution(tpl, i + 1, s, m, ncaps)
    ELSE LET c == tpl[i + 1] IN
      CASE c = "$" -> <<"$">> \o GetSubstitution(tpl, i + 2, s, m, ncaps)
        [] c = "&" -> SubSeq(s, m.index, m.end - 1) \o GetSubstitution(tpl, i + 2, s, m, ncaps)
        [] c = "`" -> SubSeq(s, 1, m.index - 1) \o GetSubstitution(tpl, i + 2, s, m, ncaps)
        [] c = "'" -> SubSeq(s, m.end, Len(s)) \o GetSubstitution(tpl, i + 2, s, m, ncaps)
        [] c \in Digits ->
             LET two == i + 2 <= Len(tpl) /\ tpl[i + 2] \in Digits
                 nn == IF two THEN 10 * DigitVal(c) + DigitVal(tpl[i + 2]) ELSE DigitVal(c)
                 \* a two-digit index beyond the groups is a one-digit index
                 \* followed by a literal digit
                 digitCount == IF two /\ nn <= ncaps THEN 2 ELSE 1
                 index == IF digitCount = 2 THEN nn ELSE DigitVal(c)
             IN  IF 1 <= index /\ index <= ncaps
                 THEN m.cap \o GetSubstitution(tpl, i + 1 + digitCount, s, m, ncaps)
                 ELSE SubSeq(tpl, i, i + digitCount)
                        \o GetSubstitution(tpl, i + 1 + digitCount, s, m, ncaps)
        [] OTHER -> <<"$">> \o GetSubstitution(tpl, i + 1, s, m, ncaps)

StringReplace(s, re, tpl) ==
    LET m == RegExpExec(re, s)
    IN  IF ~m.ok THEN s
        ELSE SubSeq(s, 1, m.index - 1) \o GetSubstitution(tpl, 1, s, m, 1)
               \o SubSeq(s, m.end, Len(s))

(***************************************************************************)
(* team-mode-patch.ts                                                      *)
(***************************************************************************)
\* (var|let|const)\s+[A-Za-z_$][\w$]*="TodoWrite";
TODO_WRITE_MARKER ==
    <<Alt(<<<<"v","a","r">>, <<"l","e","t">>, <<"c","o","n","s","t">>>>), Rep(SpaceChars, 1), One(IdentStart), Rep(IdentPart, 0)>>
      \o Lits(<<"=","\"","T","o","d","o","W","r","i","t","e","\"",";">>)

\* isEnabled\(\)\{return!([A-Za-z_$][\w$]*)\(\)\}
IS_ENABLED_FN_RE ==
    Lits(<<"i","s","E","n","a","b","l","e","d","(",")","{","r","e","t","u","r","n","!">>)
      \o <<Open, One(IdentStart), Rep(IdentPart, 0), Close>>
      \o Lits(<<"(",")","}">>)

\* the 8000 of content.slice(markerIndex, markerIndex + 8000)
WindowSize == 8000

\* the characters of /[.*+?^${}()|[\]\\]/
RegExpMetaChars == {".", "*", "+", "?", "^", "$", "{", "}", "(", ")", "|", "[", "]", "\\"}

\* a faulty variant: the class also holds the word characters, so every character
\* of an identifier gets a backslash
RECURSIVE escapeEveryChar(_)
escapeEveryChar(str) ==
    IF str = <<>> THEN <<>>
    ELSE (IF Head(str) \in RegExpMetaChars \cup WordChars
          THEN <<"\\", Head(str)>> ELSE <<Head(str)>>) \o escapeEveryChar(Tail(str))

\* str.replace(/[.*+?^${}()|[\]\\]/g, '\\$&')
RECURSIVE escapeRegExp(_)
escapeRegExp(str) ==
    IF str = <<>> THEN <<>>
    ELSE (IF Head(str) \in RegExpMetaChars
          THEN <<"\\", Head(str)>> ELSE <<Head(str)>>) \o escapeRegExp(Tail(str))

\* `function\\s+${escapeRegExp(fnName)}\\(\\)\\{return(!0|!1)\\}`
FnDefSource(fnName) ==
    <<"f","u","n","c","t","i","o","n","\\","s","+">>
      \o escapeRegExp(fnName)
      \o <<"\\","(","\\",")","\\","{","r","e","t","u","r","n","(","!","0","|","!","1",")","\\","}">>

NoGate == [found |-> FALSE, fnName |-> <<>>]

\* a faulty variant: the dispatch is searched in the whole text after the marker
findTodoWriteGateUnbounded(content) ==
    LET marker == RegExpExec(TODO_WRITE_MARKER, content)
        window == SubSeq(content, marker.index, Len(content))
        isEnabledMatch == RegExpExec(IS_ENABLED_FN_RE, window)
    IN  IF ~marker.ok THEN NoGate
        ELSE IF ~isEnabledMatch.ok THEN NoGate
        ELSE [found |-> TRUE, fnName |-> isEnabledMatch.cap]

findTodoWriteGate(content) ==
    LET marker == RegExpExec(TODO_WRITE_MARKER, content)
        markerIndex == marker.index
        \* slice(markerIndex, markerIndex + 8000), clipped to the content
        window == SubSeq(content, markerIndex,
                         IF markerIndex + WindowSize - 1 < Len(content)
                         THEN markerIndex + WindowSize - 1 ELSE Len(content))
        isEnabledMatch == RegExpExec(IS_ENABLED_FN_RE, window)
    IN  IF ~marker.ok THEN NoGate
        ELSE IF ~isEnabledMatch.ok THEN NoGate
        ELSE [found |-> TRUE, fnName |-> isEnabledMatch.cap]

findGateDefinition(content, fnName) ==
    RegExpExec(NewRegExp(FnDefSource(fnName)), content)

LitTrue == <<"!","0">>
LitFalse == <<"!","1">>

detectTeamModeState(content) ==
    LET gate == findTodoWriteGate(content)
        fnDefMatch == findGateDefinition(content, gate.fnName)
    IN  IF ~gate.found THEN "unknown"
        ELSE IF ~fnDefMatch.ok THEN "unknown"
        ELSE IF fnDefMatch.cap = LitTrue THEN "enabled" ELSE "disabled"

\* `function ${gate.fnName}(){return${desiredLiteral}}`
Replacement(fnName, desiredLiteral) ==
    <<"f","u","n","c","t","i","o","n"," ">> \o fnName \o <<"(",")","{","r","e","t","u","r","n">> \o desiredLiteral \o <<"}">>

setTeamModeEnabled(content, enable) ==
    LET gate == findTodoWriteGate(content)
        fnDefRe == NewRegExp(FnDefSource(gate.fnName))
        match == RegExpExec(fnDefRe, content)
        desiredLiteral == IF enable THEN LitTrue ELSE LitFalse
        currentLiteral == match.cap
        desiredState == IF enable THEN "enabled" ELSE "disabled"
    IN  IF ~gate.found THEN [content |-> content, changed |-> FALSE, state |-> "unknown"]
        ELSE IF ~match.ok THEN [content |-> content, changed |-> FALSE, state |-> "unknown"]
        ELSE IF currentLiteral = desiredLiteral
        THEN [content |-> content, changed |-> FALSE, state |-> desiredState]
        ELSE [content |-> StringReplace(content, fnDefRe,
                                        Replacement(gate.fnName, desiredLiteral)),
              changed |-> TRUE, state |-> desiredState]

(***************************************************************************)
(* The bundles the patcher is run on: an optional marker, a run of filler, *)
(* an optional isEnabled dispatch naming a gate, and up to MaxDefs gate    *)
(* definitions, placed before the marker or after the dispatch.            *)
(***************************************************************************)
MaxDefs == 2
MaxCalls == 2

\* the gate names of the dispatch: a plain one, one with $$ and one with $1
GateNames == {<<"w">>, <<"$","$">>, <<"$","1">>}
\* beside its own definitions a bundle may define one other function
Decoy(name) == IF name = <<"w">> THEN <<"z">> ELSE <<"$">>
Separators == {<<" ">>, <<"\t">>}
Literals == {LitTrue, LitFalse}

MarkerText == <<"v","a","r"," ","a","=","\"","T","o","d","o","W","r","i","t","e","\"",";">>
DispatchText(name) == <<"i","s","E","n","a","b","l","e","d","(",")","{","r","e","t","u","r","n","!">> \o name \o <<"(",")","}">>
DefText(sep, name, lit) == <<"f","u","n","c","t","i","o","n">> \o sep \o name \o <<"(",")","{","r","e","t","u","r","n">> \o lit \o <<"}">>
Filler(n) == [i \in 1..n |-> ";"]

\* the filler after which the dispatch is the last thing inside the window
FitGap(name) == WindowSize - Len(MarkerText) - Len(DispatchText(name))

GapLength(gap, name) ==
    CASE gap = "none" -> 0
      [] gap = "fits" -> FitGap(name)
      [] gap = "cut" -> FitGap(name) + 1

DefsText(sep, defs) == Concat([i \in 1..Len(defs) |-> DefText(sep, defs[i].name, defs[i].lit)])

Bundle(l) ==
    LET head == (IF l.marker THEN MarkerText ELSE <<>>)
                  \o Filler(GapLength(l.gap, l.gate))
                  \o (IF l.dispatch THEN DispatchText(l.gate) ELSE <<>>)
    IN  IF l.defsFirst THEN DefsText(l.sep, l.defs) \o head
        ELSE head \o DefsText(l.sep, l.defs)

DefSeqs(gate, lens) ==
    UNION {[1..n -> [name : {gate, Decoy(gate)}, lit : Literals]] : n \in lens}

LayoutShape(gaps, lens) ==
    {l \in [marker : BOOLEAN, gap : gaps, dispatch : BOOLEAN, gate : GateNames,
            sep : Separators, defs : UNION {DefSeqs(g, lens) : g \in GateNames},
            defsFirst : BOOLEAN] :
        l.defs \in DefSeqs(l.gate, lens)}

\* the dispatch right after the marker, up to MaxDefs definitions; a bundle
\* that lacks the marker or the dispatch has its definitions at the end,
\* one space after `function`
NearLayouts ==
    {l \in LayoutShape({"none"}, 0..MaxDefs) :
        (~l.marker \/ ~l.dispatch) => (l.sep = <<" ">> /\ ~l.defsFirst)}

\* filler that puts the end of the dispatch at the end of the window or one
\* character past it, and one definition of the gate after the dispatch
FarLayouts ==
    {l \in LayoutShape({"fits", "cut"}, {1}) :
        /\ l.marker /\ l.dispatch /\ ~l.defsFirst
        /\ l.sep = <<" ">> /\ l.defs[1].name = l.gate}

Layouts == NearLayouts \cup FarLayouts

PatchIdle ==
    /\ bundle = <<>> /\ orig = <<>> /\ prev = <<>> /\ log = <<>> /\ detected = "none"

InitPatch ==
    /\ \E l \in Layouts : bundle = Bundle(l)
    /\ orig = bundle
    /\ prev = bundle
    /\ log = <<>>
    /\ detected = "none"

\* one call of setTeamModeEnabled on the current bundle text; the caller
\* keeps the returned content
SetTeamModeEnabled(enable) ==
    /\ Len(log) < MaxCalls
    /\ LET r == setTeamModeEnabled(bundle, enable)
       IN  /\ bundle' = r.content
           /\ log' = Append(log, [enable |-> enable, changed |-> r.changed, state |-> r.state])
    /\ prev' = bundle
    /\ detected' = "none"
    /\ UNCHANGED <<orig, notPatch>>

\* one call of detectTeamModeState on the current bundle text
DetectTeamModeState ==
    /\ detected = "none"
    /\ detected' = detectTeamModeState(bundle)
    /\ UNCHANGED <<bundle, orig, prev, log, notPatch>>


(***************************************************************************)
(* Properties of the patcher.  The text is described here without the      *)
(* patcher's own search: by the positions at which the marker, a dispatch  *)
(* or a definition of a given name stands.                                 *)
(***************************************************************************)
LastCall == log[Len(log)]
Called == log # <<>>
LiteralOf(enable) == IF enable THEN LitTrue ELSE LitFalse
StateOf(enable) == IF enable THEN "enabled" ELSE "disabled"

MarkerPositions(s) ==
    {i \in 1..Len(s) : s[i] \in {"v", "l", "c"} /\ MatchFrom(TODO_WRITE_MARKER, 1, s, i, i, <<>>).ok}

\* the dispatches that lie wholly inside the window opened at the first marker
DispatchesInWindow(s) ==
    LET from == Min(MarkerPositions(s))
    IN  {i \in from..Len(s) :
           /\ s[i] = "i"
           /\ LET m == MatchFrom(IS_ENABLED_FN_RE, 1, s, i, i, <<>>)
              IN  m.ok /\ m.end - 1 <= from + WindowSize - 1}

DispatchesAnywhere(s) ==
    {i \in 1..Len(s) : s[i] = "i" /\ MatchFrom(IS_ENABLED_FN_RE, 1, s, i, i, <<>>).ok}

Recognized(s) == MarkerPositions(s) # {} /\ DispatchesInWindow(s) # {}

\* the name the first dispatch inside the window calls
ExtractedName(s) ==
    LET i == Min(DispatchesInWindow(s))
    IN  MatchFrom(IS_ENABLED_FN_RE, 1, s, i, i, <<>>).cap

\* the length of the text  function <spaces> name (){return lit }  standing
\* at position i of s, or 0 when it does not stand there
DefinitionLength(s, i, name, lit) ==
    LET n == RunLength(s, i + 8, SpaceChars)
        rest == name \o <<"(",")","{","r","e","t","u","r","n">> \o lit \o <<"}">>
    IN  IF StartsWithAt(s, i, <<"f","u","n","c","t","i","o","n">>) /\ n >= 1 /\ StartsWithAt(s, i + 8 + n, rest)
        THEN 8 + n + Len(rest) ELSE 0

DefinitionsOf(s, name, lit) ==
    {i \in 1..Len(s) : s[i] = "f" /\ DefinitionLength(s, i, name, lit) > 0}

AllDefinitionsOf(s, name) == DefinitionsOf(s, name, LitTrue) \cup DefinitionsOf(s, name, LitFalse)

\* the marker, a dispatch in the window and a definition of the extracted name
Classifiable(s) == Recognized(s) /\ AllDefinitionsOf(s, ExtractedName(s)) # {}

\* s with the definition of `name` that stands at i replaced by `text`
WithDefinitionReplaced(s, i, name, text) ==
    LET n == DefinitionLength(s, i, name, LitTrue) + DefinitionLength(s, i, name, LitFalse)
    IN  SubSeq(s, 1, i - 1) \o text \o SubSeq(s, i + n, Len(s))

\* C1 (as claimed): a call that returns changed=true returns its input with
\* exactly the first definition of the extracted gate name replaced by a
\* definition of the same name carrying the literal for `enable`; every
\* character outside that occurrence is unchanged.
C1_FirstOccurrenceReplaced ==
    (Called /\ LastCall.changed) =>
        /\ Classifiable(prev)
        /\ LET name == ExtractedName(prev)
               first == Min(AllDefinitionsOf(prev, name))
           IN  \E sep \in Separators :
                 bundle = WithDefinitionReplaced(prev, first, name,
                              DefText(sep, name, LiteralOf(LastCall.enable)))

\* C2 (as claimed): enabling and then disabling a classifiable bundle gives
\* a text that is classified disabled and that differs from the original at
\* most in the one character that tells !0 from !1 in the gate definition.
C2_RoundTrip ==
    (Len(log) = 2 /\ log[1].enable /\ ~log[2].enable /\ Classifiable(orig)) =>
        /\ detectTeamModeState(bundle) = "disabled"
        /\ Len(bundle) = Len(orig)
        /\ LET name == ExtractedName(orig)
               first == Min(AllDefinitionsOf(orig, name))
               token == first + DefinitionLength(orig, first, name, LitTrue)
                              + DefinitionLength(orig, first, name, LitFalse) - 2
           IN  \A i \in 1..Len(orig) : bundle[i] # orig[i] => i = token

\* C3 (as claimed): the same request made twice changes the text the first
\* time only: on a bundle classified as the opposite state the first call
\* returns changed=true, the second changed=false and the same content.
C3_Idempotent ==
    (/\ Len(log) = 2
     /\ log[1].enable = log[2].enable
     /\ detectTeamModeState(orig) = StateOf(~log[1].enable)) =>
        /\ log[1].changed
        /\ ~log[2].changed
        /\ bundle = prev

\* C10 (as claimed): the state a call reports is the state its returned
\* content is classified as, and it is unknown exactly when the input's is.
C10_ReportedStateMatches ==
    Called =>
        /\ detectTeamModeState(bundle) = LastCall.state
        /\ (LastCall.state = "unknown") <=> (detectTeamModeState(prev) = "unknown")

\* C4: on a text without the marker, without a dispatch wholly inside the
\* window that starts at the first marker, or without a definition of the
\* extracted name, detectTeamModeState returns unknown and
\* setTeamModeEnabled returns its input, changed=false and state=unknown.
C4_FailSafe ==
    /\ (detected # "none" /\ ~Classifiable(bundle)) => detected = "unknown"
    /\ (Called /\ ~Classifiable(prev)) =>
          /\ bundle = prev
          /\ ~LastCall.changed
          /\ LastCall.state = "unknown"

\* a call was made on a text whose only dispatch ends one character past the
\* window, although a definition of the name it calls is there
C4_Witness ==
    /\ Called
    /\ MarkerPositions(prev) # {}
    /\ DispatchesAnywhere(prev) # {}
    /\ DispatchesInWindow(prev) = {}
    /\ \E name \in GateNames : AllDefinitionsOf(prev, name) # {}
    /\ LastCall.state = "unknown"

\* C5: the definition search matches only a definition whose name is the
\* extracted name, character for character: a classification rests on such
\* a definition, and a rewrite touches nothing but such a definition.
C5_ExactName ==
    /\ detected \in {"enabled", "disabled"} =>
          /\ Recognized(bundle)
          /\ DefinitionsOf(bundle, ExtractedName(bundle),
                           IF detected = "enabled" THEN LitTrue ELSE LitFalse) # {}
    /\ (Called /\ LastCall.state # "unknown") => Classifiable(prev)
    /\ (Called /\ LastCall.changed) =>
          /\ Classifiable(prev)
          /\ LET name == ExtractedName(prev) IN
             \E i \in AllDefinitionsOf(prev, name) :
                LET n == DefinitionLength(prev, i, name, LitTrue)
                           + DefinitionLength(prev, i, name, LitFalse)
                    tail == Len(prev) - (i + n) + 1
                IN  /\ SubSeq(bundle, 1, i - 1) = SubSeq(prev, 1, i - 1)
                    /\ Len(bundle) >= i - 1 + tail
                    /\ SubSeq(bundle, Len(bundle) - tail + 1, Len(bundle))
                         = SubSeq(prev, i + n, Len(prev))

\* a call rewrote the definition of a gate whose name holds a $, in a text
\* that also defines the function $
C5_Witness ==
    /\ Called /\ LastCall.changed
    /\ Classifiable(prev)
    /\ \E k \in 1..Len(ExtractedName(prev)) : ExtractedName(prev)[k] = "$"
    /\ AllDefinitionsOf(prev, <<"$">>) # {}

(***************************************************************************)
(* JSON values and JSON text.  A value is null, a string, an array or an   *)
(* object; `kids` holds an array's items (under empty keys) or an object's *)
(* members in property order.  A text is a sequence of tokens: the         *)
(* punctuation, the literal null and the strings.                          *)
(***************************************************************************)
JNull == [t |-> "null", s |-> <<>>, kids |-> <<>>]
JStr(str) == [t |-> "str", s |-> str, kids |-> <<>>]
JArr(items) ==
    [t |-> "arr", s |-> <<>>, kids |-> [i \in 1..Len(items) |-> [k |-> <<>>, v |-> items[i]]]]
JObj(members) == [t |-> "obj", s |-> <<>>, kids |-> members]
Member(key, value) == [k |-> key, v |-> value]

P(c) == [k |-> "p", s |-> c]
S(str) == [k |-> "s", s |-> str]
TNull == P(<<"n","u","l","l">>)

\* obj[key], or Undefined
Undefined == [t |-> "undefined", s |-> <<>>, kids |-> <<>>]
ObjGet(obj, key) ==
    LET at == {i \in 1..Len(obj.kids) : obj.kids[i].k = key}
    IN  IF obj.t # "obj" \/ at = {} THEN Undefined ELSE obj.kids[Min(at)].v

\* obj[key] = value: an existing property keeps its place
ObjPut(obj, key, value) ==
    LET at == {i \in 1..Len(obj.kids) : obj.kids[i].k = key}
    IN  IF at = {} THEN JObj(Append(obj.kids, Member(key, value)))
        ELSE JObj([obj.kids EXCEPT ![Min(at)] = Member(key, value)])

\* JSON.stringify(value): the tokens of the text
RECURSIVE JsonStringify(_)
RECURSIVE StringifyKids(_, _, _)
JsonStringify(v) ==
    CASE v.t = "null" -> <<TNull>>
      [] v.t = "str" -> <<S(v.s)>>
      [] v.t = "arr" -> <<P(<<"[">>)>> \o StringifyKids(v.kids, 1, FALSE) \o <<P(<<"]">>)>>
      [] v.t = "obj" -> <<P(<<"{">>)>> \o StringifyKids(v.kids, 1, TRUE) \o <<P(<<"}">>)>>

StringifyKids(kids, i, named) ==
    IF i > Len(kids) THEN <<>>
    ELSE (IF i > 1 THEN <<P(<<",">>)>> ELSE <<>>)
           \o (IF named THEN <<S(kids[i].k), P(<<":">>)>> ELSE <<>>)
           \o JsonStringify(kids[i].v)
           \o StringifyKids(kids, i + 1, named)

\* the length of JSON.stringify(value, null, 2): every item of a non-empty
\* array or object on a line of its own, indented by two spaces per level
RECURSIVE JsonTextLength(_, _)
RECURSIVE KidsTextLength(_, _, _, _)
JsonTextLength(v, depth) ==
    CASE v.t = "null" -> 4
      [] v.t = "str" -> Len(v.s) + 2
      [] OTHER ->
           IF v.kids = <<>> THEN 2
           ELSE 1 + KidsTextLength(v.kids, 1, v.t = "obj", depth + 1) + 1 + 2 * depth + 1

KidsTextLength(kids, i, named, depth) ==
    IF i > Len(kids) THEN 0
    ELSE (IF i > 1 THEN 1 ELSE 0) + 1 + 2 * depth
           + (IF named THEN Len(kids[i].k) + 2 + 2 ELSE 0)
           + JsonTextLength(kids[i].v, depth)
           + KidsTextLength(kids, i + 1, named, depth)

\* JSON.parse(text): a recursive descent over the tokens.  A member named
\* __proto__ becomes an own property like any other; a repeated name
\* overwrites the earlier value.  [ok |-> FALSE] stands for the SyntaxError.
ParseError == [ok |-> FALSE, v |-> JNull, next |-> 0]
Is(toks, i, tok) == i <= Len(toks) /\ toks[i] = tok

RECURSIVE ParseValue(_, _)
RECURSIVE ParseElements(_, _, _)
RECURSIVE ParseMembers(_, _, _)
ParseValue(toks, i) ==
    IF i > Len(toks) THEN ParseError
    ELSE IF toks[i].k = "s" THEN [ok |-> TRUE, v |-> JStr(toks[i].s), next |-> i + 1]
    ELSE IF toks[i] = TNull THEN [ok |-> TRUE, v |-> JNull, next |-> i + 1]
    ELSE IF toks[i] = P(<<"[">>)
    THEN IF Is(toks, i + 1, P(<<"]">>)) THEN [ok |-> TRUE, v |-> JArr(<<>>), next |-> i + 2]
         ELSE ParseElements(toks, i + 1, <<>>)
    ELSE IF toks[i] = P(<<"{">>)
    THEN IF Is(toks, i + 1, P(<<"}">>)) THEN [ok |-> TRUE, v |-> JObj(<<>>), next |-> i + 2]
         ELSE ParseMembers(toks, i + 1, JObj(<<>>))
    ELSE ParseError

ParseElements(toks, i, items) ==
    LET e == ParseValue(toks, i) IN
    IF ~e.ok THEN ParseError
    ELSE IF Is(toks, e.next, P(<<",">>)) THEN ParseElements(toks, e.next + 1, Append(items, e.v))
    ELSE IF Is(toks, e.next, P(<<"]">>))
    THEN [ok |-> TRUE, v |-> JArr(Append(items, e.v)), next |-> e.next + 1]
    ELSE ParseError

ParseMembers(toks, i, obj) ==
    IF ~(i <= Len(toks) /\ toks[i].k = "s" /\ Is(toks, i + 1, P(<<":">>))) THEN ParseError
    ELSE LET e == ParseValue(toks, i + 2) IN
    IF ~e.ok THEN ParseError
    ELSE IF Is(toks, e.next, P(<<",">>))
    THEN ParseMembers(toks, e.next + 1, ObjPut(obj, toks[i].s, e.v))
    ELSE IF Is(toks, e.next, P(<<"}">>))
    THEN [ok |-> TRUE, v |-> ObjPut(obj, toks[i].s, e.v), next |-> e.next + 1]
    ELSE ParseError

JsonParse(toks) ==
    LET r == ParseValue(toks, 1)
    IN  IF r.ok /\ r.next = Len(toks) + 1 THEN r ELSE ParseError

(***************************************************************************)
(* The JSON store: a file is its tokens and its size in bytes.             *)
(***************************************************************************)
NoFile == [exists |-> FALSE, toks |-> <<>>, size |-> 0]

\* 1024 * 1024
MAX_JSON_SIZE == 1048576

\* a faulty variant: the replacer argument is an empty array, which keeps no
\* property of any object
RECURSIVE StripProperties(_)
StripProperties(v) ==
    CASE v.t = "obj" -> JObj(<<>>)
      [] v.t = "arr" -> JArr([i \in 1..Len(v.kids) |-> StripProperties(v.kids[i].v)])
      [] OTHER -> v

writeJsonEmptyReplacer(data) ==
    [exists |-> TRUE, toks |-> JsonStringify(StripProperties(data)),
     size |-> JsonTextLength(StripProperties(data), 0)]

\* fs.writeFileSync(filePath, JSON.stringify(data, null, 2)): the file after it
writeJson(data) ==
    [exists |-> TRUE, toks |-> JsonStringify(data), size |-> JsonTextLength(data, 0)]

\* JSON.parse(JSON.stringify(obj))
sanitizeJson(obj) == JsonParse(JsonStringify(obj)).v

\* a faulty variant: the size comparison is turned around
readJsonSizeCheckInverted(f) ==
    IF ~f.exists THEN JNull
    ELSE IF f.size < MAX_JSON_SIZE THEN JNull
    ELSE LET parsed == JsonParse(f.toks)
         IN  IF ~parsed.ok THEN JNull ELSE sanitizeJson(parsed.v)

\* every throw inside the try block (a missing file, a file too large, a
\* syntax error) ends in `return null`
readJson(f) ==
    IF ~f.exists THEN JNull
    ELSE IF f.size > MAX_JSON_SIZE THEN JNull
    ELSE LET parsed == JsonParse(f.toks)
         IN  IF ~parsed.ok THEN JNull ELSE sanitizeJson(parsed.v)

(***************************************************************************)
(* The store's runs: values are written with writeJson, files are put in   *)
(* place by other programs (well-formed or not, of any size), and the file *)
(* is read with readJson.                                                  *)
(***************************************************************************)
StoredValues ==
    {JStr(<<"x">>), JNull, JObj(<<>>), JArr(<<>>),
     JObj(<<Member(<<"a">>, JStr(<<"x">>))>>),
     JObj(<<Member(<<"a">>, JArr(<<JStr(<<"x">>), JObj(<<>>)>>)), Member(<<"b">>, JNull)>>),
     JObj(<<Member(<<"a">>, JObj(<<Member(<<"b">>, JStr(<<"y">>))>>))>>)}

PlantedTexts ==
    {\* {"__proto__": {"a": "x"}}
     JsonStringify(JObj(<<Member(<<"_","_","p","r","o","t","o","_","_">>, JObj(<<Member(<<"a">>, JStr(<<"x">>))>>))>>)),
     \* {"a": {"constructor": "x"}}
     JsonStringify(JObj(<<Member(<<"a">>, JObj(<<Member(<<"c","o","n","s","t","r","u","c","t","o","r">>, JStr(<<"x">>))>>))>>)),
     \* [{"prototype": null}]
     JsonStringify(JArr(<<JObj(<<Member(<<"p","r","o","t","o","t","y","p","e">>, JNull)>>)>>)),
     \* {"a": "x", "a": "y", "b": "x"}
     <<P(<<"{">>), S(<<"a">>), P(<<":">>), S(<<"x">>), P(<<",">>), S(<<"a">>), P(<<":">>), S(<<"y">>),
       P(<<",">>), S(<<"b">>), P(<<":">>), S(<<"x">>), P(<<"}">>)>>,
     JsonStringify(JObj(<<Member(<<"a">>, JStr(<<"x">>))>>)),
     \* not JSON: an empty file, an unclosed object, a trailing comma, two values
     <<>>,
     <<P(<<"{">>), S(<<"a">>), P(<<":">>), S(<<"x">>)>>,
     <<P(<<"[">>), S(<<"x">>), P(<<",">>), P(<<"]">>)>>,
     <<S(<<"x">>), S(<<"y">>)>>}

\* the bytes of a text written without white space
RECURSIVE CompactLength(_)
CompactLength(toks) ==
    IF toks = <<>> THEN 0
    ELSE Len(Head(toks).s) + (IF Head(toks).k = "s" THEN 2 ELSE 0) + CompactLength(Tail(toks))

\* a planted file holds its text and any amount of white space
PlantedFiles ==
    {[exists |-> TRUE, toks |-> toks, size |-> size] :
        toks \in PlantedTexts,
        size \in {MAX_JSON_SIZE - 1, MAX_JSON_SIZE, MAX_JSON_SIZE + 1}}
      \cup {[exists |-> TRUE, toks |-> toks, size |-> CompactLength(toks)] : toks \in PlantedTexts}

NotRead == [called |-> FALSE, v |-> JNull]

InitStore ==
    /\ file = NoFile
    /\ readRes = NotRead

WriteJson(data) ==
    /\ file' = writeJson(data)
    /\ UNCHANGED <<readRes, notStore>>

PlantFile(f) ==
    /\ file' = f
    /\ UNCHANGED <<readRes, notStore>>

RemoveFile ==
    /\ file.exists
    /\ file' = NoFile
    /\ UNCHANGED <<readRes, notStore>>

ReadJson ==
    /\ readRes' = [called |-> TRUE, v |-> readJson(file)]
    /\ UNCHANGED <<file, notStore>>

DangerousKeys == {<<"_","_","p","r","o","t","o","_","_">>, <<"c","o","n","s","t","r","u","c","t","o","r">>, <<"p","r","o","t","o","t","y","p","e">>}

RECURSIVE HasDangerousKey(_)
HasDangerousKey(v) ==
    \E i \in 1..Len(v.kids) :
        \/ v.t = "obj" /\ v.kids[i].k \in DangerousKeys
        \/ HasDangerousKey(v.kids[i].v)

\* C6 (as claimed): whatever file readJson is applied to, the value it
\* returns holds none of the keys __proto__, constructor and prototype, at
\* any depth: such a file is read back as null or with those keys stripped.
C6_NoDangerousKeys ==
    readRes.called => ~HasDangerousKey(readRes.v)

(***************************************************************************)
(* mcp-presets/index.ts: the preset registry                               *)
(***************************************************************************)
ServerConfig(command, args) ==
    JObj(<<Member(<<"c","o","m","m","a","n","d">>, JStr(command)),
           Member(<<"a","r","g","s">>, JArr([i \in 1..Len(args) |-> JStr(args[i])]))>>)

CODEX_PRESET ==
    [key |-> <<"c","o","d","e","x">>, server |-> ServerConfig(<<"u","v","x">>, <<<<"c","o","d","e","x","-","a","s","-","m","c","p","@","l","a","t","e","s","t">>>>)]

GEMINI_PRESET ==
    [key |-> <<"g","e","m","i","n","i">>, server |-> ServerConfig(<<"n","p","x">>, <<<<"-","y">>, <<"g","e","m","i","n","i","-","m","c","p","-","t","o","o","l">>>>)]

MCP_PRESETS == <<CODEX_PRESET, GEMINI_PRESET>>

NoPreset == [found |-> FALSE, key |-> <<>>, server |-> JNull]

\* MCP_PRESETS.find((p) => p.key === key)
getMcpPreset(key) ==
    LET at == {i \in 1..Len(MCP_PRESETS) : MCP_PRESETS[i].key = key}
    IN  IF at = {} THEN NoPreset
        ELSE [found |-> TRUE, key |-> MCP_PRESETS[Min(at)].key,
              server |-> MCP_PRESETS[Min(at)].server]

getMcpServerName(presetKey) ==
    IF ~getMcpPreset(presetKey).found THEN presetKey
    ELSE CASE presetKey = <<"c","o","d","e","x">> -> <<"c","o","d","e","x","-","s","u","b","a","g","e","n","t">>
           [] presetKey = <<"g","e","m","i","n","i">> -> <<"g","e","m","i","n","i","-","c","l","i">>
           [] OTHER -> presetKey

UpperSeq == <<"A","B","C","D","E","F","G","H","I","J","K","L","M","N","O","P","Q","R","S","T","U","V","W","X","Y","Z">>
LowerSeq == <<"a","b","c","d","e","f","g","h","i","j","k","l","m","n","o","p","q","r","s","t","u","v","w","x","y","z">>

\* String.prototype.toLowerCase
ToLowerCase(str) ==
    [i \in 1..Len(str) |->
        IF str[i] \in Upper
        THEN LowerSeq[CHOOSE j \in 1..Len(UpperSeq) : UpperSeq[j] = str[i]]
        ELSE str[i]]

\* String.prototype.trim
RECURSIVE Trim(_)
Trim(str) ==
    IF str = <<>> THEN <<>>
    ELSE IF Head(str) \in SpaceChars THEN Trim(Tail(str))
    ELSE IF str[Len(str)] \in SpaceChars THEN Trim(SubSeq(str, 1, Len(str) - 1))
    ELSE str

UndefinedInput == [defined |-> FALSE, text |-> <<>>]
StringInput(text) == [defined |-> TRUE, text |-> text]

IsPresetKey(k) == getMcpPreset(k).found

\* a faulty variant: the keys are trimmed and not lower-cased
parseMcpPresetsCaseSensitive(input) ==
    IF ~input.defined \/ input.text = <<>> THEN <<>>
    ELSE LET split == SplitOn(input.text, ",")
             mapped == [i \in 1..Len(split) |-> Trim(split[i])]
         IN  SelectSeq(mapped, IsPresetKey)

\* if (!input) return []; input.split(',').map(trim, toLowerCase).filter(known)
parseMcpPresets(input) ==
    IF ~input.defined \/ input.text = <<>> THEN <<>>
    ELSE LET split == SplitOn(input.text, ",")
             mapped == [i \in 1..Len(split) |-> ToLowerCase(Trim(split[i]))]
         IN  SelectSeq(mapped, IsPresetKey)

(***************************************************************************)
(* The inputs of parseMcpPresets: up to MaxPieces pieces joined by commas. *)
(* Each piece is given with what it is once trimmed and lower-cased.       *)
(***************************************************************************)
MaxPieces == 2

Pieces ==
    {[raw |-> <<"c","o","d","e","x">>, norm |-> <<"c","o","d","e","x">>],
     [raw |-> <<" ","C","o","d","e","x">>, norm |-> <<"c","o","d","e","x">>],
     [raw |-> <<"g","e","m","i","n","i">>, norm |-> <<"g","e","m","i","n","i">>],
     [raw |-> <<"G","E","M","I","N","I","\t"," ">>, norm |-> <<"g","e","m","i","n","i">>],
     [raw |-> <<"u","n","k","n","o","w","n">>, norm |-> <<"u","n","k","n","o","w","n">>],
     [raw |-> <<"c","o"," ","d","e","x">>, norm |-> <<"c","o"," ","d","e","x">>],
     [raw |-> <<"G","e","m","i","n","i","2">>, norm |-> <<"g","e","m","i","n","i","2">>],
     [raw |-> <<" ">>, norm |-> <<>>],
     [raw |-> <<>>, norm |-> <<>>]}

RECURSIVE Join(_, _)
Join(strs, sep) ==
    IF strs = <<>> THEN <<>>
    ELSE IF Len(strs) = 1 THEN strs[1]
    ELSE strs[1] \o sep \o Join(Tail(strs), sep)

NotParsed == [done |-> FALSE, keys |-> <<>>]

\* no piece at all stands for a call without an argument
InitParse ==
    /\ pieces \in UNION {[1..n -> Pieces] : n \in 0..MaxPieces}
    /\ parseInput = IF pieces = <<>> THEN UndefinedInput
                    ELSE StringInput(Join([i \in 1..Len(pieces) |-> pieces[i].raw], <<",">>))
    /\ parseRes = NotParsed

ParseMcpPresets ==
    /\ ~parseRes.done
    /\ parseRes' = [done |-> TRUE, keys |-> parseMcpPresets(parseInput)]
    /\ UNCHANGED <<parseInput, pieces, notParse>>

\* the keys of the registry, as listMcpPresets is tested to return them
RegisteredKeys == {<<"c","o","d","e","x">>, <<"g","e","m","i","n","i">>}

IsRegistered(piece) == piece.norm \in RegisteredKeys

\* C8: parseMcpPresets returns the input's pieces, trimmed and lower-cased,
\* that are registered preset keys, in input order and with duplicates; no
\* input and the empty input give the empty list; getMcpPreset knows every
\* key returned.
C8_ParseMcpPresets ==
    parseRes.done =>
        /\ LET kept == SelectSeq(pieces, IsRegistered)
           IN  parseRes.keys = [i \in 1..Len(kept) |-> kept[i].norm]
        /\ (~parseInput.defined \/ parseInput.text = <<>>) => parseRes.keys = <<>>
        /\ \A i \in 1..Len(parseRes.keys) : getMcpPreset(parseRes.keys[i]).found

\* an input of two pieces, one in capitals with white space around it and
\* one unknown, was parsed to the one key
C8_Witness ==
    /\ parseRes.done
    /\ Len(pieces) = 2
    /\ \E i \in 1..2 : pieces[i].raw # pieces[i].norm /\ IsRegistered(pieces[i])
    /\ \E i \in 1..2 : ~IsRegistered(pieces[i]) /\ pieces[i].norm # <<>>
    /\ Len(parseRes.keys) = 1

(***************************************************************************)
(* claude-config: the config merger.  Its source is not part of the tree   *)
(* under study; it is modelled from its description: load .claude.json     *)
(* (absent: empty), insert the server of every valid preset whose server   *)
(* name is not there yet, write the config back when something was         *)
(* inserted, and return the keys inserted.                                 *)
(***************************************************************************)
\* readJson(path) ?? {}
LoadConfig(f) ==
    LET config == readJson(f)
    IN  IF config.t = "obj" THEN config ELSE JObj(<<>>)

RECURSIVE MergePresets(_, _)
MergePresets(config, keys) ==
    IF keys = <<>> THEN [config |-> config, added |-> <<>>]
    ELSE LET key == Head(keys)
             preset == getMcpPreset(key)
             name == getMcpServerName(key)
             had == ObjGet(config, <<"m","c","p","S","e","r","v","e","r","s">>)
             servers == IF had.t = "obj" THEN had ELSE JObj(<<>>)
         IN  IF ~preset.found \/ ObjGet(servers, name) # Undefined
             THEN MergePresets(config, Tail(keys))
             ELSE LET rest == MergePresets(
                                ObjPut(config, <<"m","c","p","S","e","r","v","e","r","s">>, ObjPut(servers, name, preset.server)),
                                Tail(keys))
                  IN  [config |-> rest.config, added |-> <<key>> \o rest.added]

\* the file after the call, and the keys the call returns
ensureMcpPresets(f, keys) ==
    LET m == MergePresets(LoadConfig(f), keys)
    IN  [file |-> IF m.added = <<>> THEN f ELSE writeJson(m.config), added |-> m.added]

\* the file after the call, and the boolean the call returns
ensureMcpPreset(f, key) ==
    LET r == ensureMcpPresets(f, <<key>>)
    IN  [file |-> r.file, added |-> r.added # <<>>]

MaxConfigCalls == 2
MaxKeys == 2

RequestKeys == {<<"c","o","d","e","x">>, <<"g","e","m","i","n","i">>, <<"u","n","k","n","o","w","n","-","p","r","e","s","e","t">>}
KeyLists == UNION {[1..n -> RequestKeys] : n \in 0..MaxKeys}

\* the config directory holds no .claude.json, or an empty one
InitConfig ==
    /\ file \in {NoFile, writeJson(JObj(<<>>))}
    /\ cfgLog = <<>>

EnsureMcpPreset(key) ==
    /\ Len(cfgLog) < MaxConfigCalls
    /\ LET r == ensureMcpPreset(file, key)
       IN  /\ file' = r.file
           /\ cfgLog' = Append(cfgLog, [keys |-> <<key>>,
                                        added |-> IF r.added THEN <<key>> ELSE <<>>])
    /\ UNCHANGED notConfig

EnsureMcpPresets(keys) ==
    /\ Len(cfgLog) < MaxConfigCalls
    /\ LET r == ensureMcpPresets(file, keys)
       IN  /\ file' = r.file
           /\ cfgLog' = Append(cfgLog, [keys |-> keys, added |-> r.added])
    /\ UNCHANGED notConfig

Range(seq) == {seq[i] : i \in 1..Len(seq)}

\* C7: over any sequence of calls on one config directory that starts
\* absent or empty, a valid key is reported as added by the first call that
\* asks for it and by no later call, and once in that call; a call repeated
\* with the same keys returns the empty list; an unknown key is never
\* reported.
C7_AddedOnce ==
    \A j \in 1..Len(cfgLog) :
        /\ \A k \in Range(cfgLog[j].added) : k \in RegisteredKeys
        /\ \A k \in RegisteredKeys :
              /\ k \in Range(cfgLog[j].added) <=>
                    /\ k \in Range(cfgLog[j].keys)
                    /\ \A i \in 1..j - 1 : k \notin Range(cfgLog[i].keys)
              /\ Cardinality({n \in 1..Len(cfgLog[j].added) : cfgLog[j].added[n] = k}) <= 1
        /\ (j > 1 /\ cfgLog[j].keys = cfgLog[j - 1].keys) => cfgLog[j].added = <<>>

\* a call that added a preset, asked with an unknown key beside it, was
\* made again with the same keys and added nothing
C7_Witness ==
    /\ Len(cfgLog) = 2
    /\ cfgLog[1].added # <<>>
    /\ <<"u","n","k","n","o","w","n","-","p","r","e","s","e","t">> \in Range(cfgLog[1].keys)
    /\ cfgLog[2].keys = cfgLog[1].keys
    /\ cfgLog[2].added = <<>>

(***************************************************************************)
(* Two processes run the merger's read-modify-write cycle on the same      *)
(* config file, each for one preset key, with no lock: a process reads the *)
(* whole config, and in a later step inserts its server and writes the     *)
(* whole config back.                                                      *)
(***************************************************************************)
Processes == {1, 2}

InitialConfigs ==
    {NoFile, writeJson(JObj(<<>>)),
     writeJson(JObj(<<Member(<<"t","h","e","m","e">>, JStr(<<"d","a","r","k">>))>>)),
     writeJson(MergePresets(JObj(<<>>), <<<<"c","o","d","e","x">>>>).config)}

InitRace ==
    /\ file \in InitialConfigs
    /\ \E keys \in [Processes -> RequestKeys] :
          procs = [proc |-> [p \in Processes |->
                               [pc |-> "start", key |-> keys[p],
                                config |-> JNull, added |-> FALSE]],
                   order |-> <<>>]

\* readJson of the whole config
ReadConfig(p) ==
    /\ procs.proc[p].pc = "start"
    /\ procs' = [proc |-> [procs.proc EXCEPT ![p].pc = "loaded", ![p].config = LoadConfig(file)],
                 order |-> Append(procs.order, <<p, "read">>)]
    /\ UNCHANGED <<file, notRace>>

\* insert the server entry into what was read, writeJson of the whole config
WriteConfig(p) ==
    /\ procs.proc[p].pc = "loaded"
    /\ LET m == MergePresets(procs.proc[p].config, <<procs.proc[p].key>>)
       IN  /\ file' = IF m.added = <<>> THEN file ELSE writeJson(m.config)
           /\ procs' = [proc |-> [procs.proc EXCEPT ![p].pc = "done", ![p].added = m.added # <<>>],
                        order |-> Append(procs.order, <<p, "write">>)]
    /\ UNCHANGED notRace

AllDone == \A p \in Processes : procs.proc[p].pc = "done"

\* one cycle ended before the other began
Serial ==
    procs.order \in {<<<<1, "read">>, <<1, "write">>, <<2, "read">>, <<2, "write">>>>,
                     <<<<2, "read">>, <<2, "write">>, <<1, "read">>, <<1, "write">>>>}

HasServer(f, key) ==
    ObjGet(ObjGet(LoadConfig(f), <<"m","c","p","S","e","r","v","e","r","s">>), getMcpServerName(key)) # Undefined

\* the process whose write came last among those that wrote
Writers == {p \in Processes : procs.proc[p].added}
LastWriter ==
    CHOOSE p \in Writers :
        \A q \in Writers :
            \A i, j \in 1..Len(procs.order) :
                (procs.order[i] = <<p, "write">> /\ procs.order[j] = <<q, "write">>) => j <= i

\* C9: when both cycles have ended, the file is what the last writer made
\* of its own read (nothing of the other's write is merged into it), and
\* when the cycles ran one after the other the servers of both valid keys
\* are in the file.
C9_LastWriteWins ==
    AllDone =>
        /\ Writers # {} =>
              LoadConfig(file) = MergePresets(procs.proc[LastWriter].config,
                                              <<procs.proc[LastWriter].key>>).config
        /\ Serial => \A p \in Processes :
                        procs.proc[p].key \in RegisteredKeys => HasServer(file, procs.proc[p].key)

\* the lost update: both processes reported their different keys as added
\* and the file holds the server of one of them only
C9_Witness ==
    /\ AllDone
    /\ \A p \in Processes : procs.proc[p].added
    /\ procs.proc[1].key # procs.proc[2].key
    /\ \E p \in Processes :
          /\ ~HasServer(file, procs.proc[p].key)
          /\ HasServer(file, procs.proc[3 - p].key)
          /\ LastWriter = 3 - p

(***************************************************************************)
(* Specifications                                                          *)
(***************************************************************************)
StoreIdle == file = NoFile /\ readRes = NotRead
ConfigIdle == cfgLog = <<>>
RaceIdle == procs = [proc |-> <<>>, order |-> <<>>]
ParseIdle == parseInput = UndefinedInput /\ pieces = <<>> /\ parseRes = NotParsed

InitPatchSpec == InitPatch /\ StoreIdle /\ ParseIdle /\ ConfigIdle /\ RaceIdle

NextPatch ==
    \/ \E enable \in BOOLEAN : SetTeamModeEnabled(enable)
    \/ DetectTeamModeState

SpecPatch == InitPatchSpec /\ [][NextPatch]_vars

InitStoreSpec == InitStore /\ PatchIdle /\ ParseIdle /\ ConfigIdle /\ RaceIdle

NextStore ==
    \/ \E data \in StoredValues : WriteJson(data)
    \/ \E f \in PlantedFiles : PlantFile(f)
    \/ RemoveFile
    \/ ReadJson

SpecStore == InitStoreSpec /\ [][NextStore]_vars

InitParseSpec == InitParse /\ PatchIdle /\ StoreIdle /\ ConfigIdle /\ RaceIdle

NextParse == ParseMcpPresets

SpecParse == InitParseSpec /\ [][NextParse]_vars

InitConfigSpec == InitConfig /\ readRes = NotRead /\ PatchIdle /\ ParseIdle /\ RaceIdle

NextConfig ==
    \/ \E key \in RequestKeys : EnsureMcpPreset(key)
    \/ \E keys \in KeyLists : EnsureMcpPresets(keys)

SpecConfig == InitConfigSpec /\ [][NextConfig]_vars

InitRaceSpec == InitRace /\ readRes = NotRead /\ PatchIdle /\ ParseIdle /\ ConfigIdle

NextRace ==
    \/ \E p \in Processes : ReadConfig(p)
    \/ \E p \in Processes : WriteConfig(p)

SpecRace == InitRaceSpec /\ [][NextRace]_vars

====
